---- MODULE Spec2Model ----
(***************************************************************************)
(* Ingestion and asset-mapping pipeline of the playbook backend.           *)
(*                                                                         *)
(* The model follows the two Express routers of src/unnamed/part_003:      *)
(*   POST /api/upload/file, POST /api/upload/url  (ingestion)              *)
(*   POST /api/playbooks/:id/approve-mapping      (mapping approval)       *)
(*   GET  /api/upload/:id/status                  (status query)           *)
(* Every `await db.query(...)` and the `await extractContent(...)` call is *)
(* a suspension point, so every one of them is one step of a request and   *)
(* steps of different requests interleave freely.                          *)
(*                                                                         *)
(* The database module behind `db` is not among the sources.  The routers  *)
(* hand it single statements, among them BEGIN, COMMIT and ROLLBACK, so    *)
(* which database session runs a statement is not decided by the routers:  *)
(* every statement runs on any one of the `pool` sessions the module keeps, *)
(* a number fixed when the server starts: 1 for a module that exports one  *)
(* client, more for one that exports a connection pool.                    *)
(***************************************************************************)
EXTENDS Integers, Sequences, FiniteSets, TLC

(* ---- bounds ---- *)
MaxCalls == 2        \* requests in one run
MaxUploads == 2      \* upload ids, those of earlier ingestions included
MaxSeeded == 1       \* uploads that earlier ingestions have left completed
MaxBlocks == 2       \* blocks in one extraction result
MaxDecisions == 1    \* entries of one block_mappings list
MaxFaults == 1       \* statements that fail for an outside reason
PoolSize == 2        \* database sessions

Calls == 1 .. MaxCalls
UploadIds == 1 .. MaxUploads
BlockIds == UploadIds \X (1 .. MaxBlocks)
Conns == 1 .. PoolSize

(* ---- values ---- *)
NULL == "null"
NoRow == [absent |-> TRUE]
Untouched == [untouched |-> TRUE]
AssetTypes == {"goal", "task"}
SuggestedTypes == {"goal"}
ExtractionErrors == {"timeout"}
DbError == "db error"

UploadRow == [status : {"processing", "completed", "failed", "mapped"},
              error_message : {NULL, DbError} \cup ExtractionErrors,
              processed_at : {NULL, "now"}]

\* Confidence scores, in tenths: below the range, its two ends, inside, above.
Scores == {-5, 0, 5, 10, 15}
DefaultConfidence == 8

BlockRow == [upload_id : UploadIds,
             confidence_score : Scores \cup {DefaultConfidence},
             suggested_asset_type : SuggestedTypes,
             final_asset_type : AssetTypes \cup {NULL},
             mapping_approved : BOOLEAN]

\* A block as an extraction that reports no confidence score returns it.
ExtractedBlock == [suggested_asset_type : SuggestedTypes]

\* A block as an extraction that reports a confidence score returns it.
ScoredBlock == [suggested_asset_type : SuggestedTypes, confidence_score : Scores]

\* block.confidence_score || 0.8
ConfidenceOrDefault(block) ==
  IF "confidence_score" \in DOMAIN block
  THEN IF block.confidence_score = 0 THEN DefaultConfidence
       ELSE block.confidence_score
  ELSE DefaultConfidence

SeqsUpTo(S, n) == UNION {[1 .. k -> S] : k \in 0 .. n}

ExtractionResults == SeqsUpTo(ExtractedBlock, MaxBlocks)

ScoredResults == SeqsUpTo(ExtractedBlock \cup ScoredBlock, MaxBlocks)

\* An entry of block_mappings; NULL is the asset_type of an entry that has none.
Mapping == [block_id : BlockIds, asset_type : AssetTypes \cup {NULL}]

BlockMappings == SeqsUpTo(Mapping, MaxDecisions)

NoResponse == [code |-> 0, upload_id |-> 0, blocks_extracted |-> 0]

\* A multipart body: the uploaded file by its name and size in bytes, or no file.
NoFile == [missing |-> TRUE]
FileNames == {<<"a", ".", "T", "X", "T">>, <<"a", ".", "e", "x", "e">>}
MAX_FILE_SIZE == 10 * 1024 * 1024
FileSizes == {MAX_FILE_SIZE, MAX_FILE_SIZE + 1}
FileInputs == {NoFile} \cup [originalname : FileNames, size : FileSizes]

\* path.extname: the name from its last dot on, empty without a dot or when the
\* only dot is the first character.
ExtName(name) ==
  LET dots == {i \in 1 .. Len(name) : name[i] = "."}
      last == CHOOSE i \in dots : \A j \in dots : j <= i
  IN IF dots = {} \/ last = 1 THEN <<>> ELSE SubSeq(name, last, Len(name))

\* String.prototype.toLowerCase, on the letters the file names are written in.
ToLowerCase(str) ==
  LET lower == ("T" :> "t") @@ ("X" :> "x")
  IN [i \in 1 .. Len(str) |-> IF str[i] \in DOMAIN lower THEN lower[str[i]] ELSE str[i]]

allowedTypes == {<<".", "p", "d", "f">>, <<".", "t", "x", "t">>,
                 <<".", "m", "d">>, <<".", "d", "o", "c", "x">>}

\* upload.single('file') hands the request to the handler: the fileFilter
\* accepts the extension and the file is within limits.fileSize.
MulterAccepts(file) ==
  /\ ToLowerCase(ExtName(file.originalname)) \in allowedTypes
  /\ file.size <= MAX_FILE_SIZE

\* req.body.url: "" stands for a body without url.
Urls == {"", "https://example.com/playbook", "playbook"}

\* !url
Falsy(url) == url = ""

IdleCall == [op |-> "none", pc |-> "idle", id |-> 0, source |-> NULL,
             created |-> FALSE, extractions |-> 0, blocks |-> <<>>,
             block_mappings |-> <<>>, i |-> 0, error |-> NULL,
             upload |-> NoRow, rows |-> <<>>, asset_mappings |-> <<>>,
             res |-> NoResponse]

VARIABLES
  uploads,          \* committed rows of table uploads, by id
  content_blocks,   \* committed rows of table content_blocks, by id
  session,          \* per database session: transaction state and its uncommitted rows
  call,             \* the requests: route, position, inputs, loop index, response
  nextUpload,       \* number of upload ids handed out by uuidv4()
  pool,             \* number of sessions the database module runs statements on
  faults            \* number of statements that failed for an outside reason

vars == <<uploads, content_blocks, session, call, nextUpload, pool, faults>>

Sessions == 1 .. pool

IdleSession == [tx |-> "idle",
                uploads |-> [u \in UploadIds |-> Untouched],
                blocks |-> [b \in BlockIds |-> Untouched]]

\* The rows an earlier file ingestion of MaxBlocks blocks has left behind.
SeededUpload == [status |-> "completed", error_message |-> NULL, processed_at |-> "now"]

SeededBlock(id) ==
  [upload_id |-> id, confidence_score |-> DefaultConfidence,
   suggested_asset_type |-> "goal",
   final_asset_type |-> NULL, mapping_approved |-> FALSE]

\* No request is in flight; the tables are empty or hold the rows of earlier
\* ingestions that completed.
Init ==
  /\ \E n \in 0 .. MaxSeeded :
       /\ uploads = [u \in UploadIds |-> IF u <= n THEN SeededUpload ELSE NoRow]
       /\ content_blocks = [b \in BlockIds |->
                              IF b[1] <= n THEN SeededBlock(b[1]) ELSE NoRow]
       /\ nextUpload = n
  /\ session = [c \in Conns |-> IdleSession]
  /\ call = [k \in Calls |-> IdleCall]
  /\ pool \in 1 .. PoolSize
  /\ faults = 0

(* ---- the database as the routers use it ---- *)

\* The row a statement of session c reads: its own uncommitted write, else the committed row.
SeenUpload(c, id) ==
  IF session[c].uploads[id] # Untouched THEN session[c].uploads[id] ELSE uploads[id]

SeenBlock(c, b) ==
  IF session[c].blocks[b] # Untouched THEN session[c].blocks[b] ELSE content_blocks[b]

\* A committed row written by a transaction another session has not ended is
\* locked: an UPDATE of it by session c waits.
UploadLocked(c, id) ==
  /\ uploads[id] # NoRow
  /\ \E d \in Conns \ {c} : session[d].uploads[id] # Untouched

BlockLocked(c, b) ==
  /\ content_blocks[b] # NoRow
  /\ \E d \in Conns \ {c} : session[d].blocks[b] # Untouched

\* A write is held back in the session while it has a transaction open, and is
\* committed at once otherwise.
PutUpload(c, id, row) ==
  IF session[c].tx = "active"
  THEN /\ session' = [session EXCEPT ![c].uploads[id] = row]
       /\ UNCHANGED <<uploads, content_blocks>>
  ELSE /\ uploads' = [uploads EXCEPT ![id] = row]
       /\ UNCHANGED <<session, content_blocks>>

PutBlock(c, b, row) ==
  IF session[c].tx = "active"
  THEN /\ session' = [session EXCEPT ![c].blocks[b] = row]
       /\ UNCHANGED <<uploads, content_blocks>>
  ELSE /\ content_blocks' = [content_blocks EXCEPT ![b] = row]
       /\ UNCHANGED <<session, uploads>>

\* db.query rejects an INSERT or UPDATE: the statement changes no row, and a
\* transaction open on the session is aborted.  Either the session's
\* transaction is already aborted, or the statement fails on its data (a
\* parameter the column type refuses, a violated constraint); the latter is
\* counted.  BEGIN is rejected only in an aborted transaction; COMMIT and
\* ROLLBACK are not rejected.
Throws(c) ==
  /\ \/ session[c].tx = "aborted" /\ faults' = faults
     \/ session[c].tx # "aborted" /\ faults < MaxFaults /\ faults' = faults + 1
  /\ session' = [session EXCEPT ![c].tx = IF @ = "idle" THEN "idle" ELSE "aborted"]
  /\ UNCHANGED <<uploads, content_blocks>>

\* db.query rejects a SELECT: only in an aborted transaction, which stays aborted.
SelectThrows(c) ==
  /\ session[c].tx = "aborted"
  /\ UNCHANGED <<uploads, content_blocks, session, faults>>

\* SELECT COUNT(*) as count FROM content_blocks WHERE upload_id = $1
CountBlocks(c, id) ==
  Cardinality({b \in BlockIds : /\ SeenBlock(c, b) # NoRow
                                /\ SeenBlock(c, b).upload_id = id})

\* The ids of the blocks of upload id that a statement of session c sees, in
\* the order of their creation.
SelectBlockIds(c, id) ==
  LET seen == {i \in 1 .. MaxBlocks : /\ SeenBlock(c, <<id, i>>) # NoRow
                                      /\ SeenBlock(c, <<id, i>>).upload_id = id}
  IN [n \in 1 .. Cardinality(seen) |->
        <<id, CHOOSE i \in seen : Cardinality({j \in seen : j <= i}) = n>>]

\* SELECT * FROM content_blocks WHERE upload_id = $1 ORDER BY created_at ASC
SelectBlocks(c, id) ==
  [n \in 1 .. Len(SelectBlockIds(c, id)) |-> SeenBlock(c, SelectBlockIds(c, id)[n])]

\* SELECT cb.id as block_id, am.* FROM content_blocks cb LEFT JOIN asset_mappings am
\* ... WHERE cb.upload_id = $1: no statement of the routers writes asset_mappings,
\* so every block comes with an empty right-hand side.
SelectMappings(c, id) ==
  [n \in 1 .. Len(SelectBlockIds(c, id)) |->
     [block_id |-> SelectBlockIds(c, id)[n], asset_type |-> NULL]]

\* INSERT INTO uploads (...) VALUES (..., 'processing', NOW())
InsertUpload(c, id) ==
  /\ session[c].tx # "aborted"
  /\ PutUpload(c, id, [status |-> "processing", error_message |-> NULL,
                       processed_at |-> NULL])
  /\ faults' = faults

\* content_blocks.upload_id references uploads(id): the upload row must be
\* there for the inserting session.
ForeignKeyHolds(c, id) == SeenUpload(c, id) # NoRow

\* INSERT INTO content_blocks (id, upload_id, ..., suggested_asset_type, created_at)
InsertBlock(c, b, id, block) ==
  /\ session[c].tx # "aborted"
  /\ ForeignKeyHolds(c, id)
  /\ PutBlock(c, b, [upload_id |-> id,
                     confidence_score |-> ConfidenceOrDefault(block),
                     suggested_asset_type |-> block.suggested_asset_type,
                     final_asset_type |-> NULL,
                     mapping_approved |-> FALSE])
  /\ faults' = faults

InsertBlockThrows(c, id) ==
  \/ Throws(c)
  \/ /\ session[c].tx # "aborted"
     /\ ~ForeignKeyHolds(c, id)
     /\ session' = [session EXCEPT ![c].tx = IF @ = "idle" THEN "idle" ELSE "aborted"]
     /\ UNCHANGED <<uploads, content_blocks, faults>>

\* UPDATE uploads SET <assignments> WHERE id = $id, with the assignments given
\* as the row that replaces the old one.
UpdateUpload(c, id, row) ==
  /\ session[c].tx # "aborted"
  /\ IF SeenUpload(c, id) = NoRow
     THEN UNCHANGED <<uploads, content_blocks, session>>
     ELSE /\ ~UploadLocked(c, id)
          /\ PutUpload(c, id, row)
  /\ faults' = faults

\* UPDATE uploads SET status = 'completed', processed_at = NOW() WHERE id = $2
UpdateCompleted(c, id) ==
  UpdateUpload(c, id, IF SeenUpload(c, id) = NoRow THEN NoRow
                      ELSE [SeenUpload(c, id) EXCEPT !.status = "completed",
                                                     !.processed_at = "now"])

\* UPDATE uploads SET status = 'failed', error_message = $2 WHERE id = $3
UpdateFailed(c, id, message) ==
  UpdateUpload(c, id, IF SeenUpload(c, id) = NoRow THEN NoRow
                      ELSE [SeenUpload(c, id) EXCEPT !.status = "failed",
                                                     !.error_message = message])

\* UPDATE uploads SET status = 'mapped' WHERE id = $2
UpdateMapped(c, id) ==
  UpdateUpload(c, id, IF SeenUpload(c, id) = NoRow THEN NoRow
                      ELSE [SeenUpload(c, id) EXCEPT !.status = "mapped"])

\* UPDATE content_blocks SET final_asset_type = $1, mapping_approved = true
\* WHERE id = $2 AND upload_id = $3
UpdateMapping(c, mapping, id) ==
  LET b == mapping.block_id
      row == SeenBlock(c, b)
  IN /\ session[c].tx # "aborted"
     /\ IF row = NoRow \/ row.upload_id # id
        THEN UNCHANGED <<uploads, content_blocks, session>>
        ELSE /\ ~BlockLocked(c, b)
             /\ PutBlock(c, b, [row EXCEPT !.final_asset_type = mapping.asset_type,
                                           !.mapping_approved = TRUE])
     /\ faults' = faults

\* BEGIN: opens a transaction on the session; inside one it only warns.
Begin(c) ==
  /\ session[c].tx # "aborted"
  /\ session' = [session EXCEPT ![c].tx = "active"]
  /\ UNCHANGED <<uploads, content_blocks, faults>>

\* The rows of a table once the uncommitted rows of a session are written to it.
Merged(table, pending) ==
  [r \in DOMAIN table |-> IF pending[r] # Untouched THEN pending[r] ELSE table[r]]

\* COMMIT: makes the session's uncommitted rows permanent; ends an aborted
\* transaction by discarding them; outside a transaction it only warns.
Commit(c) ==
  /\ IF session[c].tx = "active"
     THEN /\ uploads' = Merged(uploads, session[c].uploads)
          /\ content_blocks' = Merged(content_blocks, session[c].blocks)
     ELSE UNCHANGED <<uploads, content_blocks>>
  /\ session' = [session EXCEPT ![c] = IdleSession]
  /\ faults' = faults

\* ROLLBACK: discards the session's uncommitted rows; outside a transaction it
\* only warns.
Rollback(c) ==
  /\ session' = [session EXCEPT ![c] = IdleSession]
  /\ UNCHANGED <<uploads, content_blocks, faults>>

(* ---- requests ---- *)

\* Requests are numbered in the order they arrive.
Arrives(k) ==
  /\ call[k].pc = "idle"
  /\ IF k = 1 THEN TRUE ELSE call[k - 1].pc # "idle"

At(k, op, pc) == call[k].op = op /\ call[k].pc = pc

Goto(k, pc) == call' = [call EXCEPT ![k].pc = pc]

Respond(k, code, id, n) ==
  call' = [call EXCEPT ![k].pc = "done",
                       ![k].res = [code |-> code, upload_id |-> id,
                                   blocks_extracted |-> n]]

\* The id of the block that the i-th insert of an ingestion gives to uuidv4().
BlockId(id, i) == <<id, i>>

(* ---- POST /api/upload/file ---- *)

\* upload.single('file') answers for the handler when it refuses the file;
\* if (!req.file) return 400; const uploadId = uuidv4()
FileStart(k) ==
  /\ Arrives(k)
  /\ \E file \in FileInputs :
       IF file = NoFile
       THEN /\ call' = [call EXCEPT ![k].op = "file", ![k].source = file,
                          ![k].pc = "done",
                          ![k].res = [code |-> 400, upload_id |-> 0,
                                      blocks_extracted |-> 0]]
            /\ nextUpload' = nextUpload
       ELSE IF ~MulterAccepts(file)
       THEN /\ call' = [call EXCEPT ![k].op = "file", ![k].source = file,
                          ![k].pc = "done",
                          ![k].res = [code |-> 500, upload_id |-> 0,
                                      blocks_extracted |-> 0]]
            /\ nextUpload' = nextUpload
       ELSE /\ nextUpload < MaxUploads
            /\ nextUpload' = nextUpload + 1
            /\ call' = [call EXCEPT ![k].op = "file", ![k].source = file,
                          ![k].pc = "insert_upload", ![k].id = nextUpload + 1]
  /\ UNCHANGED <<uploads, content_blocks, session, pool, faults>>

\* Step 1: store the initial upload record
FileInsertUpload(k) ==
  /\ At(k, "file", "insert_upload")
  /\ \E c \in Sessions :
       \/ /\ InsertUpload(c, call[k].id)
          /\ call' = [call EXCEPT ![k].created = TRUE, ![k].pc = "extract"]
       \/ Throws(c) /\ Respond(k, 500, 0, 0)
  /\ UNCHANGED <<nextUpload, pool>>

\* Step 2: extractContent(req.file.path, req.file.mimetype) resolves with one
\* of `results` or rejects
FileExtractFrom(k, results) ==
  /\ At(k, "file", "extract")
  /\ \/ \E r \in results :
          call' = [call EXCEPT ![k].extractions = @ + 1,
                     ![k].blocks = r, ![k].i = 1,
                     ![k].pc = IF Len(r) = 0 THEN "mark_completed" ELSE "insert_block"]
     \/ \E e \in ExtractionErrors :
          call' = [call EXCEPT ![k].extractions = @ + 1,
                     ![k].error = e, ![k].pc = "mark_failed"]
  /\ UNCHANGED <<uploads, content_blocks, session, nextUpload, pool, faults>>

\* Step 2 as a handler that calls extractContent again after a rejection.
FileExtractRetrying(k) ==
  /\ At(k, "file", "extract")
  /\ call[k].extractions < 2
  /\ \/ \E r \in ExtractionResults :
          call' = [call EXCEPT ![k].extractions = @ + 1,
                     ![k].blocks = r, ![k].i = 1,
                     ![k].pc = IF Len(r) = 0 THEN "mark_completed" ELSE "insert_block"]
     \/ \E e \in ExtractionErrors :
          call' = [call EXCEPT ![k].extractions = @ + 1,
                     ![k].error = e,
                     ![k].pc = IF call[k].extractions = 0 THEN "extract"
                               ELSE "mark_failed"]
  /\ UNCHANGED <<uploads, content_blocks, session, nextUpload, pool, faults>>

FileExtract(k) == FileExtractFrom(k, ExtractionResults)

\* Step 3: one turn of the loop that stores the extracted blocks
FileInsertBlock(k) ==
  /\ At(k, "file", "insert_block")
  /\ LET id == call[k].id
         i == call[k].i
     IN \E c \in Sessions :
          \/ /\ InsertBlock(c, BlockId(id, i), id, call[k].blocks[i])
             /\ call' = [call EXCEPT ![k].i = i + 1,
                           ![k].pc = IF i + 1 > Len(call[k].blocks)
                                     THEN "mark_completed" ELSE "insert_block"]
          \/ /\ InsertBlockThrows(c, id)
             /\ call' = [call EXCEPT ![k].error = DbError, ![k].pc = "mark_failed"]
  /\ UNCHANGED <<nextUpload, pool>>

\* Step 4: update the upload status, then answer
FileMarkCompleted(k) ==
  /\ At(k, "file", "mark_completed")
  /\ \E c \in Sessions :
       \/ /\ UpdateCompleted(c, call[k].id)
          /\ Respond(k, 200, call[k].id, Len(call[k].blocks))
       \/ /\ Throws(c)
          /\ call' = [call EXCEPT ![k].error = DbError, ![k].pc = "mark_failed"]
  /\ UNCHANGED <<nextUpload, pool>>

\* catch (aiError): update the status to failed, then answer with the upload id
FileMarkFailed(k) ==
  /\ At(k, "file", "mark_failed")
  /\ \E c \in Sessions :
       \/ /\ UpdateFailed(c, call[k].id, call[k].error)
          /\ Respond(k, 500, call[k].id, 0)
       \/ /\ Throws(c)
          /\ Respond(k, 500, 0, 0)
  /\ UNCHANGED <<nextUpload, pool>>

(* ---- POST /api/upload/url ---- *)

\* if (!url) return 400; const uploadId = uuidv4()
UrlStart(k) ==
  /\ Arrives(k)
  /\ \E url \in Urls :
       IF Falsy(url)
       THEN /\ call' = [call EXCEPT ![k].op = "url", ![k].source = url,
                          ![k].pc = "done",
                          ![k].res = [code |-> 400, upload_id |-> 0,
                                      blocks_extracted |-> 0]]
            /\ nextUpload' = nextUpload
       ELSE /\ nextUpload < MaxUploads
            /\ nextUpload' = nextUpload + 1
            /\ call' = [call EXCEPT ![k].op = "url", ![k].source = url,
                          ![k].pc = "insert_upload", ![k].id = nextUpload + 1]
  /\ UNCHANGED <<uploads, content_blocks, session, pool, faults>>

UrlInsertUpload(k) ==
  /\ At(k, "url", "insert_upload")
  /\ \E c \in Sessions :
       \/ /\ InsertUpload(c, call[k].id)
          /\ call' = [call EXCEPT ![k].created = TRUE, ![k].pc = "extract"]
       \/ Throws(c) /\ Respond(k, 500, 0, 0)
  /\ UNCHANGED <<nextUpload, pool>>

\* extractContent(url, 'url'): a rejection goes to the only catch of the route
UrlExtractFrom(k, results) ==
  /\ At(k, "url", "extract")
  /\ \/ \E r \in results :
          call' = [call EXCEPT ![k].extractions = @ + 1,
                     ![k].blocks = r, ![k].i = 1,
                     ![k].pc = IF Len(r) = 0 THEN "mark_completed" ELSE "insert_block"]
     \/ \E e \in ExtractionErrors :
          call' = [call EXCEPT ![k].extractions = @ + 1,
                     ![k].error = e, ![k].pc = "done",
                     ![k].res = [code |-> 500, upload_id |-> 0, blocks_extracted |-> 0]]
  /\ UNCHANGED <<uploads, content_blocks, session, nextUpload, pool, faults>>

UrlExtract(k) == UrlExtractFrom(k, ExtractionResults)

UrlInsertBlock(k) ==
  /\ At(k, "url", "insert_block")
  /\ LET id == call[k].id
         i == call[k].i
     IN \E c \in Sessions :
          \/ /\ InsertBlock(c, BlockId(id, i), id, call[k].blocks[i])
             /\ call' = [call EXCEPT ![k].i = i + 1,
                           ![k].pc = IF i + 1 > Len(call[k].blocks)
                                     THEN "mark_completed" ELSE "insert_block"]
          \/ /\ InsertBlockThrows(c, id)
             /\ call' = [call EXCEPT ![k].error = DbError, ![k].pc = "done",
                           ![k].res = [code |-> 500, upload_id |-> 0,
                                       blocks_extracted |-> 0]]
  /\ UNCHANGED <<nextUpload, pool>>

UrlMarkCompleted(k) ==
  /\ At(k, "url", "mark_completed")
  /\ \E c \in Sessions :
       \/ /\ UpdateCompleted(c, call[k].id)
          /\ Respond(k, 200, call[k].id, Len(call[k].blocks))
       \/ /\ Throws(c)
          /\ call' = [call EXCEPT ![k].error = DbError, ![k].pc = "done",
                        ![k].res = [code |-> 500, upload_id |-> 0,
                                    blocks_extracted |-> 0]]
  /\ UNCHANGED <<nextUpload, pool>>

(* ---- POST /api/playbooks/:id/approve-mapping ---- *)

\* const { id } = req.params; const { block_mappings } = req.body
ApproveStart(k) ==
  /\ Arrives(k)
  /\ \E id \in UploadIds, m \in BlockMappings :
       call' = [call EXCEPT ![k].op = "approve", ![k].pc = "begin",
                            ![k].id = id, ![k].block_mappings = m, ![k].i = 1]
  /\ UNCHANGED <<uploads, content_blocks, session, nextUpload, pool, faults>>

\* await db.query('BEGIN')
ApproveBegin(k) ==
  /\ At(k, "approve", "begin")
  /\ \E c \in Sessions :
       \/ /\ Begin(c)
          /\ Goto(k, IF Len(call[k].block_mappings) = 0
                     THEN "update_status" ELSE "update_block")
       \/ /\ session[c].tx = "aborted"
          /\ Throws(c)
          /\ Respond(k, 500, 0, 0)
  /\ UNCHANGED <<nextUpload, pool>>

\* one turn of: for (const mapping of block_mappings) UPDATE content_blocks ...
ApproveUpdateBlock(k) ==
  /\ At(k, "approve", "update_block")
  /\ LET i == call[k].i
     IN \E c \in Sessions :
          \/ /\ UpdateMapping(c, call[k].block_mappings[i], call[k].id)
             /\ call' = [call EXCEPT ![k].i = i + 1,
                           ![k].pc = IF i + 1 > Len(call[k].block_mappings)
                                     THEN "update_status" ELSE "update_block"]
          \/ Throws(c) /\ Goto(k, "rollback")
  /\ UNCHANGED <<nextUpload, pool>>

\* UPDATE uploads SET status = 'mapped'
ApproveUpdateStatus(k) ==
  /\ At(k, "approve", "update_status")
  /\ \E c \in Sessions :
       \/ UpdateMapped(c, call[k].id) /\ Goto(k, "commit")
       \/ Throws(c) /\ Goto(k, "rollback")
  /\ UNCHANGED <<nextUpload, pool>>

\* await db.query('COMMIT'); res.json({ success: true, ... })
ApproveCommit(k) ==
  /\ At(k, "approve", "commit")
  /\ \E c \in Sessions :
       Commit(c) /\ Respond(k, 200, call[k].id, 0)
  /\ UNCHANGED <<nextUpload, pool>>

\* catch: await db.query('ROLLBACK'); throw error -> 500
ApproveRollback(k) ==
  /\ At(k, "approve", "rollback")
  /\ \E c \in Sessions :
       Rollback(c) /\ Respond(k, 500, 0, 0)
  /\ UNCHANGED <<nextUpload, pool>>

(* ---- GET /api/upload/:id/status ---- *)

\* const { id } = req.params
StatusStart(k) ==
  /\ Arrives(k)
  /\ \E id \in UploadIds :
       call' = [call EXCEPT ![k].op = "status", ![k].pc = "select_upload",
                            ![k].id = id]
  /\ UNCHANGED <<uploads, content_blocks, session, nextUpload, pool, faults>>

\* SELECT * FROM uploads WHERE id = $1; 404 without a row; the answer is the
\* row with blocks_extracted = 0 unless its status is 'completed'
StatusSelectUpload(k) ==
  /\ At(k, "status", "select_upload")
  /\ \E c \in Sessions :
       \/ /\ session[c].tx # "aborted"
          /\ LET upload == SeenUpload(c, call[k].id)
             IN IF upload = NoRow
                THEN Respond(k, 404, 0, 0)
                ELSE IF upload.status = "completed"
                     THEN call' = [call EXCEPT ![k].upload = upload,
                                               ![k].pc = "count_blocks"]
                     ELSE call' = [call EXCEPT ![k].upload = upload,
                                     ![k].pc = "done",
                                     ![k].res = [code |-> 200,
                                                 upload_id |-> call[k].id,
                                                 blocks_extracted |-> 0]]
          /\ UNCHANGED <<uploads, content_blocks, session, faults>>
       \/ SelectThrows(c) /\ Respond(k, 500, 0, 0)
  /\ UNCHANGED <<nextUpload, pool>>

\* blocksCount = parseInt(blocksResult.rows[0].count); res.json({...upload, blocks_extracted})
StatusCountBlocks(k) ==
  /\ At(k, "status", "count_blocks")
  /\ \E c \in Sessions :
       \/ /\ session[c].tx # "aborted"
          /\ Respond(k, 200, call[k].id, CountBlocks(c, call[k].id))
          /\ UNCHANGED <<uploads, content_blocks, session, faults>>
       \/ SelectThrows(c) /\ Respond(k, 500, 0, 0)
  /\ UNCHANGED <<nextUpload, pool>>

(* ---- GET /api/playbooks/:id ---- *)

\* const { id } = req.params
DetailStart(k) ==
  /\ Arrives(k)
  /\ \E id \in UploadIds :
       call' = [call EXCEPT ![k].op = "detail", ![k].pc = "select_upload",
                            ![k].id = id]
  /\ UNCHANGED <<uploads, content_blocks, session, nextUpload, pool, faults>>

\* The first query as a SELECT ... FOR UPDATE: inside a transaction the row it
\* reads stays locked by the session.
DetailSelectUploadForUpdate(k) ==
  /\ At(k, "detail", "select_upload")
  /\ \E c \in Sessions :
       \/ /\ session[c].tx # "aborted"
          /\ LET upload == SeenUpload(c, call[k].id)
             IN IF upload = NoRow
                THEN Respond(k, 404, 0, 0) /\ session' = session
                ELSE /\ call' = [call EXCEPT ![k].upload = upload,
                                             ![k].pc = "select_blocks"]
                     /\ session' = IF session[c].tx = "active"
                                   THEN [session EXCEPT ![c].uploads[call[k].id] = upload]
                                   ELSE session
          /\ UNCHANGED <<uploads, content_blocks, faults>>
       \/ SelectThrows(c) /\ Respond(k, 500, 0, 0)
  /\ UNCHANGED <<nextUpload, pool>>

\* SELECT * FROM uploads WHERE id = $1; 404 without a row
DetailSelectUpload(k) ==
  /\ At(k, "detail", "select_upload")
  /\ \E c \in Sessions :
       \/ /\ session[c].tx # "aborted"
          /\ LET upload == SeenUpload(c, call[k].id)
             IN IF upload = NoRow
                THEN Respond(k, 404, 0, 0)
                ELSE call' = [call EXCEPT ![k].upload = upload,
                                          ![k].pc = "select_blocks"]
          /\ UNCHANGED <<uploads, content_blocks, session, faults>>
       \/ SelectThrows(c) /\ Respond(k, 500, 0, 0)
  /\ UNCHANGED <<nextUpload, pool>>

\* Get all content blocks
DetailSelectBlocks(k) ==
  /\ At(k, "detail", "select_blocks")
  /\ \E c \in Sessions :
       \/ /\ session[c].tx # "aborted"
          /\ call' = [call EXCEPT ![k].rows = SelectBlocks(c, call[k].id),
                                  ![k].pc = "select_mappings"]
          /\ UNCHANGED <<uploads, content_blocks, session, faults>>
       \/ SelectThrows(c) /\ Respond(k, 500, 0, 0)
  /\ UNCHANGED <<nextUpload, pool>>

\* Get asset mapping suggestions; res.json({ playbook, blocks, asset_mappings })
DetailSelectMappings(k) ==
  /\ At(k, "detail", "select_mappings")
  /\ \E c \in Sessions :
       \/ /\ session[c].tx # "aborted"
          /\ call' = [call EXCEPT
                        ![k].asset_mappings = SelectMappings(c, call[k].id),
                        ![k].pc = "done",
                        ![k].res = [code |-> 200, upload_id |-> call[k].id,
                                    blocks_extracted |-> 0]]
          /\ UNCHANGED <<uploads, content_blocks, session, faults>>
       \/ SelectThrows(c) /\ Respond(k, 500, 0, 0)
  /\ UNCHANGED <<nextUpload, pool>>

Next ==
  \E k \in Calls :
    \/ FileStart(k) \/ FileInsertUpload(k) \/ FileExtract(k)
    \/ FileInsertBlock(k) \/ FileMarkCompleted(k) \/ FileMarkFailed(k)
    \/ UrlStart(k) \/ UrlInsertUpload(k) \/ UrlExtract(k)
    \/ UrlInsertBlock(k) \/ UrlMarkCompleted(k)
    \/ ApproveStart(k) \/ ApproveBegin(k) \/ ApproveUpdateBlock(k)
    \/ ApproveUpdateStatus(k) \/ ApproveCommit(k) \/ ApproveRollback(k)
    \/ StatusStart(k) \/ StatusSelectUpload(k) \/ StatusCountBlocks(k)
    \/ DetailStart(k) \/ DetailSelectUpload(k) \/ DetailSelectBlocks(k)
    \/ DetailSelectMappings(k)

Spec == Init /\ [][Next]_vars

\* The server whose database module exports a single client.
InitSingleClient == Init /\ pool = 1

SpecSingleClient == InitSingleClient /\ [][Next]_vars

\* The ingestion routes with an extraction that reports confidence scores.
NextConfidence ==
  \E k \in Calls :
    \/ FileStart(k) \/ FileInsertUpload(k) \/ FileExtractFrom(k, ScoredResults)
    \/ FileInsertBlock(k) \/ FileMarkCompleted(k) \/ FileMarkFailed(k)
    \/ UrlStart(k) \/ UrlInsertUpload(k) \/ UrlExtractFrom(k, ScoredResults)
    \/ UrlInsertBlock(k) \/ UrlMarkCompleted(k)

SpecConfidence == InitSingleClient /\ [][NextConfidence]_vars

(* ---- what the claims speak about ---- *)

Exists(id) == id \in UploadIds /\ uploads[id] # NoRow

\* The committed content blocks of an upload: what a block-count query returns.
BlocksOf(id) ==
  {b \in BlockIds : content_blocks[b] # NoRow /\ content_blocks[b].upload_id = id}

IsIngest(k) == call[k].op \in {"file", "url"}

IsApprove(k) == call[k].op = "approve"

IsStatus(k) == call[k].op = "status"

IsDetail(k) == call[k].op = "detail"

Returned(k) == call[k].pc = "done"

\* The extraction call of ingestion k has resolved with a block list.
Extracted(k) ==
  /\ IsIngest(k)
  /\ \/ call[k].pc \in {"insert_block", "mark_completed"}
     \/ /\ call[k].pc \in {"mark_failed", "done"}
        /\ call[k].error = DbError \/ call[k].res.code = 200

LegalEdge(from, to) ==
  \/ from = to
  \/ from = "processing" /\ to \in {"completed", "failed"}
  \/ from = "completed" /\ to = "mapped"

\* The entries of a block_mappings list that name a block of upload id.
OwnDecisions(k) ==
  {i \in 1 .. Len(call[k].block_mappings) :
     call[k].block_mappings[i].block_id \in BlocksOf(call[k].id)}

ForeignDecisions(k) ==
  (1 .. Len(call[k].block_mappings)) \ OwnDecisions(k)

\* C1: the status of an upload changes only along Processing -> Completed,
\* Processing -> Failed and Completed -> Mapped.
C1_OnlyLegalTransitions ==
  [][\A u \in UploadIds :
       Exists(u) => /\ uploads'[u] # NoRow
                    /\ LegalEdge(uploads[u].status, uploads'[u].status)]_vars

\* C2: once the status of an upload is Mapped or Failed, no step changes it.
C2_MappedAndFailedAbsorbing ==
  [][\A u \in UploadIds :
       (Exists(u) /\ uploads[u].status \in {"mapped", "failed"})
         => uploads'[u] = uploads[u]]_vars

\* C3: an upload whose status is Failed has no content block in storage.
C3_FailedHasNoBlocks ==
  \A u \in UploadIds :
    (Exists(u) /\ uploads[u].status = "failed") => BlocksOf(u) = {}

\* C4: once extraction has returned its block list, the stored blocks of the
\* upload number 0 or the length of that list, in every state.
C4_BlocksAllOrNothing ==
  \A k \in Calls :
    Extracted(k) =>
      Cardinality(BlocksOf(call[k].id)) \in {0, Len(call[k].blocks)}

\* C5: an upload record whose ingest call has returned is no longer Processing.
C5_ReturnedIngestLeftProcessing ==
  \A k \in Calls :
    (IsIngest(k) /\ Returned(k) /\ Exists(call[k].id))
      => uploads[call[k].id].status # "processing"

\* C6: an ingestion that returned after its extraction or a block insert failed
\* has left the upload Failed with the error's message, on both routes.
C6_FailureRecorded ==
  \A k \in Calls :
    (IsIngest(k) /\ Returned(k) /\ call[k].error # NULL /\ Exists(call[k].id)
       /\ \A j \in Calls : ~IsApprove(j))
      => /\ uploads[call[k].id].status = "failed"
         /\ uploads[call[k].id].error_message = call[k].error

\* C7: a step of an approval returns success only if the upload exists, and
\* changes the status of the upload only if that status is Completed.
C7_ApproveOnlyOnCompleted ==
  [][\A k \in Calls :
       (IsApprove(k) /\ call'[k] # call[k])
         => /\ (call'[k].res.code = 200) => Exists(call[k].id)
            /\ (Exists(call[k].id) /\ uploads'[call[k].id] # uploads[call[k].id])
                 => uploads[call[k].id].status = "completed"]_vars

\* C8: an approval whose list names a block that is not a block of the upload
\* fails, leaves the blocks of the upload unapproved and the upload Completed.
C8_ForeignBlockRejectsCall ==
  \A k \in Calls :
    (IsApprove(k) /\ Returned(k) /\ Exists(call[k].id) /\ ForeignDecisions(k) # {}
       /\ \A j \in Calls \ {k} : call[j].id # call[k].id)
      => /\ call[k].res.code # 200
         /\ uploads[call[k].id].status = "completed"
         /\ \A b \in BlocksOf(call[k].id) :
              /\ ~content_blocks[b].mapping_approved
              /\ content_blocks[b].final_asset_type = NULL

\* The blocks of upload id are as a committed approval with list m leaves them,
\* all other blocks of the upload being untouched since their insertion.
Applied(k) ==
  /\ uploads[call[k].id].status = "mapped"
  /\ \A b \in BlocksOf(call[k].id) :
       IF \E i \in OwnDecisions(k) : call[k].block_mappings[i].block_id = b
       THEN /\ content_blocks[b].mapping_approved
            /\ \E i \in OwnDecisions(k) :
                 /\ call[k].block_mappings[i].block_id = b
                 /\ call[k].block_mappings[i].asset_type = content_blocks[b].final_asset_type
       ELSE /\ ~content_blocks[b].mapping_approved
            /\ content_blocks[b].final_asset_type = NULL

\* The upload of approval k and its blocks are as they were before any approval.
NothingApplied(k) ==
  /\ uploads[call[k].id].status = "completed"
  /\ \A b \in BlocksOf(call[k].id) :
       /\ ~content_blocks[b].mapping_approved
       /\ content_blocks[b].final_asset_type = NULL

\* C9: an approval that has returned has either applied all of its list and
\* set the upload to Mapped, or has failed and changed nothing.
C9_ApproveAtomic ==
  \A k \in Calls :
    (IsApprove(k) /\ Returned(k) /\ Exists(call[k].id)
       /\ \A j \in Calls \ {k} : call[j].id # call[k].id)
      => \/ call[k].res.code = 200 /\ Applied(k)
         \/ call[k].res.code # 200 /\ NothingApplied(k)

\* The value block b has after the approvals of `order` have run one after the
\* other, each applying its whole list if it answered success and nothing otherwise.
RECURSIVE SerialBlock(_, _, _)
SerialBlock(b, row, order) ==
  IF order = <<>> THEN row
  ELSE LET k == Head(order)
           hit == {i \in 1 .. Len(call[k].block_mappings) :
                     call[k].block_mappings[i].block_id = b}
           i == CHOOSE x \in hit : \A y \in hit : y <= x
       IN SerialBlock(b,
            IF call[k].res.code = 200 /\ hit # {} /\ row.upload_id = call[k].id
            THEN [row EXCEPT !.mapping_approved = TRUE,
                             !.final_asset_type = call[k].block_mappings[i].asset_type]
            ELSE row,
            Tail(order))

SerialStatus(order) ==
  IF \E n \in 1 .. Len(order) : call[order[n]].res.code = 200
  THEN "mapped" ELSE "completed"

\* C10: when two approvals of the same upload have both returned, the upload
\* and its blocks are as if the two had run one after the other in some order.
C10_ApprovalsSerializable ==
  \A j, k \in Calls :
    (j < k /\ IsApprove(j) /\ IsApprove(k) /\ Returned(j) /\ Returned(k)
       /\ call[j].id = call[k].id /\ Exists(call[k].id))
      => \E order \in {<<j, k>>, <<k, j>>} :
           /\ uploads[call[k].id].status = SerialStatus(order)
           /\ \A b \in BlocksOf(call[k].id) :
                content_blocks[b] = SerialBlock(b, SeededBlock(call[k].id), order)

\* C11: an approval that answered success for a Completed upload, with a list
\* that names some but not all of the blocks of the upload, has left exactly
\* the named blocks approved with the asset type of their entry, the other
\* blocks unapproved with no final asset type, and the upload Mapped.
C11_PartialApprovalApplied ==
  \A k \in Calls :
    (IsApprove(k) /\ Returned(k) /\ call[k].res.code = 200
       /\ Exists(call[k].id)
       /\ OwnDecisions(k) # {} /\ ForeignDecisions(k) = {}
       /\ \E b \in BlocksOf(call[k].id) :
             \A i \in OwnDecisions(k) : call[k].block_mappings[i].block_id # b
       /\ \A j \in Calls \ {k} : call[j].id # call[k].id)
      => Applied(k)

\* C12: while an upload is Completed, its stored blocks number the length of
\* the list its extraction returned, the ingestion that answered success
\* reported that number, and a status request that read the upload as
\* Completed reported it too.
C12_CompletedBlockCount ==
  /\ \A k \in Calls :
       (IsIngest(k) /\ Returned(k) /\ call[k].res.code = 200
          /\ Exists(call[k].id) /\ uploads[call[k].id].status = "completed")
         => /\ Cardinality(BlocksOf(call[k].id)) = Len(call[k].blocks)
            /\ call[k].res.blocks_extracted = Len(call[k].blocks)
  /\ \A k \in Calls :
       (IsStatus(k) /\ Returned(k) /\ call[k].res.code = 200
          /\ call[k].upload.status = "completed"
          /\ Exists(call[k].id) /\ uploads[call[k].id].status = "completed")
         => call[k].res.blocks_extracted = Cardinality(BlocksOf(call[k].id))

\* C13: an upload carries an error message only while its status is Failed.
C13_ErrorMessageOnlyWhenFailed ==
  \A u \in UploadIds :
    (Exists(u) /\ uploads[u].error_message # NULL) => uploads[u].status = "failed"

\* C14: processed_at is written in the step that takes the upload out of
\* Processing and in no other: after every step it is null exactly while the
\* status is Processing, and a value once written stays.
C14_ProcessedAtStampedOnce ==
  [][\A u \in UploadIds :
       uploads'[u] # NoRow =>
         /\ (uploads'[u].status = "processing") <=> (uploads'[u].processed_at = NULL)
         /\ (Exists(u) /\ uploads[u].processed_at # NULL)
              => uploads'[u].processed_at = uploads[u].processed_at]_vars

\* The input of ingestion k is one that normalization refuses: no file, a file
\* of another extension than the allowed ones or above the size limit, no
\* URL, or a URL that is not an absolute one.
AbsoluteUrls == {"https://example.com/playbook"}

FailsNormalization(k) ==
  \/ call[k].op = "file"
       /\ (call[k].source = NoFile \/ ~MulterAccepts(call[k].source))
  \/ call[k].op = "url" /\ call[k].source \notin AbsoluteUrls

\* C15: no step of an ingestion whose input fails normalization changes the
\* stored uploads or content blocks or invokes the extraction, and the
\* ingestion does not answer success.
C15_InvalidInputCreatesNothing ==
  [][\A k \in Calls :
       (call'[k] # call[k] /\ FailsNormalization(k)')
         => /\ uploads' = uploads
            /\ content_blocks' = content_blocks
            /\ call'[k].extractions = 0
            /\ call'[k].res.code # 200]_vars

\* C16: a step of an ingestion invokes the extraction only if the ingestion
\* has not invoked it before and its INSERT of the Processing upload record
\* has succeeded; so it is invoked at most once, a rejection included.
C16_ExtractionAtMostOnce ==
  [][\A k \in Calls :
       call'[k].extractions # call[k].extractions
         => /\ call[k].extractions = 0
            /\ call'[k].extractions = 1
            /\ call[k].created]_vars

\* An ingestion has returned after its one extraction call was rejected.
C16_Witness ==
  \E k \in Calls :
    /\ IsIngest(k) /\ Returned(k)
    /\ call[k].extractions = 1
    /\ call[k].error \in ExtractionErrors

\* C17: an ingestion that has returned after a failure that followed the
\* creation of its upload record (a rejected extraction, a rejected block
\* insert) has answered an error that carries the id of that upload.
C17_FailureCarriesUploadId ==
  \A k \in Calls :
    (IsIngest(k) /\ Returned(k) /\ call[k].created /\ call[k].error # NULL)
      => /\ call[k].res.code # 200
         /\ call[k].res.upload_id = call[k].id

\* The blocks of the extraction list of ingestion k that are in storage.
StoredOf(k) ==
  {i \in 1 .. Len(call[k].blocks) :
     content_blocks[BlockId(call[k].id, i)] # NoRow}

HasScore(block) == "confidence_score" \in DOMAIN block

\* Scores are in tenths: the range [0, 1] is 0 .. 10.
InRange(score) == 0 <= score /\ score <= 10

\* C18: a stored block has the default score 0.8 if its extraction output
\* carries no score, and the score of its extraction output if that is an
\* explicit score within [0, 1], the value 0 included.
C18_DefaultOnlyWhenOmitted ==
  \A k \in Calls : \A i \in StoredOf(k) :
    LET block == call[k].blocks[i]
        row == content_blocks[BlockId(call[k].id, i)]
    IN /\ ~HasScore(block) => row.confidence_score = DefaultConfidence
       /\ (HasScore(block) /\ InRange(block.confidence_score))
            => row.confidence_score = block.confidence_score

\* C19: every stored block has a score within [0, 1]; a block whose
\* extraction output has a score below 0 is stored with 0, one with a score
\* above 1 is stored with 1.
C19_ScoreClamped ==
  /\ \A b \in BlockIds :
       content_blocks[b] # NoRow => InRange(content_blocks[b].confidence_score)
  /\ \A k \in Calls : \A i \in StoredOf(k) :
       LET block == call[k].blocks[i]
           row == content_blocks[BlockId(call[k].id, i)]
       IN HasScore(block) =>
            /\ block.confidence_score < 0 => row.confidence_score = 0
            /\ block.confidence_score > 10 => row.confidence_score = 10

\* Every request that has arrived has returned.
Quiescent == \A j \in Calls : call[j].pc \in {"idle", "done"}

\* C20: once the requests have returned, an ingestion whose extraction
\* returned an empty list, that met no rejected statement and whose upload no
\* other request names has answered success with blocks_extracted = 0 and
\* has left the upload Completed with no block in storage.
C20_EmptyExtractionCompletes ==
  \A k \in Calls :
    (IsIngest(k) /\ Returned(k) /\ call[k].extractions = 1
       /\ call[k].error = NULL /\ Len(call[k].blocks) = 0
       /\ Quiescent
       /\ \A j \in Calls \ {k} : call[j].id # call[k].id)
      => /\ call[k].res.code = 200
         /\ call[k].res.blocks_extracted = 0
         /\ Exists(call[k].id)
         /\ uploads[call[k].id].status = "completed"
         /\ BlocksOf(call[k].id) = {}

IsRead(k) == IsStatus(k) \/ IsDetail(k)

C22_NotFoundExactlyWhenAbsent ==
  [][\A k \in Calls :
       (IsRead(k) /\ call'[k] # call[k])
         => IF call[k].pc = "select_upload"
            THEN IF Exists(call[k].id)
                 THEN /\ call'[k].upload = uploads[call[k].id]
                      /\ call'[k].res.code \in {0, 200}
                 ELSE call'[k].res.code = 404
            ELSE call'[k].res.code \in {0, 200}]_vars

\* Ingestion k stores a block in this step.
InsertsBlock(k) ==
  /\ IsIngest(k)
  /\ call[k].pc = "insert_block"
  /\ call'[k].i = call[k].i + 1

\* Ingestion k writes the status Completed in this step.
WritesCompleted(k) ==
  /\ IsIngest(k)
  /\ call[k].pc = "mark_completed"
  /\ call'[k].res.code = 200

\* C23: an ingestion stores a block only after the INSERT of its upload
\* record has succeeded and its extraction has returned, and not when the
\* stored upload has a status other than Processing; it writes Completed only
\* after the last block insert.
C23_IngestionStepsOrdered ==
  [][\A k \in Calls :
       /\ InsertsBlock(k)
            => /\ call[k].created
               /\ call[k].extractions = 1
               /\ Exists(call[k].id)
                    => uploads[call[k].id].status = "processing"
       /\ WritesCompleted(k)
            => call[k].i = Len(call[k].blocks) + 1]_vars

\* The upload and the block as the statements of the single database client
\* find them.
StoredUpload(u) == SeenUpload(1, u)

StoredBlock(b) == SeenBlock(1, b)

\* C24: a step of an ingestion or of an approval changes no upload other
\* than its own and no block of another upload, whatever blocks the list of
\* the approval names.
C24_OtherUploadsUntouched ==
  [][\A k \in Calls :
       (call'[k] # call[k] /\ (IsIngest(k) \/ IsApprove(k))')
         => /\ \A u \in UploadIds \ {call'[k].id} :
                 StoredUpload(u)' = StoredUpload(u)
            /\ \A b \in BlockIds :
                 b[1] # call'[k].id => StoredBlock(b)' = StoredBlock(b)]_vars

\* C25: a stored block is approved only if it has a final asset type and its
\* upload is stored with status Mapped.
C25_ApprovedOnlyWhenMapped ==
  \A b \in BlockIds :
    (content_blocks[b] # NoRow /\ content_blocks[b].mapping_approved)
      => /\ content_blocks[b].final_asset_type # NULL
         /\ Exists(content_blocks[b].upload_id)
         /\ uploads[content_blocks[b].upload_id].status = "mapped"

\* C26: a status request that answers with the upload as it is stored
\* reports as blocks_extracted the number of blocks stored for the upload at
\* that moment, whatever the status of the upload.
C26_StatusCountsStoredBlocks ==
  [][\A k \in Calls :
       (IsStatus(k) /\ call'[k] # call[k] /\ call'[k].res.code = 200
          /\ call'[k].upload = uploads[call[k].id])
         => call'[k].res.blocks_extracted = Cardinality(BlocksOf(call[k].id))]_vars

====
